---- MODULE Spec2Model ----
(***************************************************************************)
(* Model of websocket-test.py: a WebSocket test client made of three       *)
(* threads sharing one WebSocketApp handle:                                *)
(*   - the transport thread (ws_app.run_forever) that invokes the          *)
(*     callbacks on_open / on_message / on_error / on_close,               *)
(*   - the ping thread (send_pings),                                       *)
(*   - the main thread (the __main__ block).                               *)
(* The program keeps no session object: what it observes and decides is    *)
(* visible as the lines it prints (log, pingLog, mainLog, one sequence per *)
(* thread) and the frames it writes (sent).                                *)
(***************************************************************************)
EXTENDS Integers, Sequences, FiniteSets, TLC

VARIABLES
    sock,        \* ws.sock / ws.sock.connected: "none", "connected", "closed"
    closeInfo,   \* what the transport will report to on_error / on_close
    wsPc,        \* position of the transport thread
    inCount,     \* number of inbound frames delivered to on_message so far
    pingPc,      \* position of the ping thread
    wake,        \* time at which the ping thread's time.sleep returns
    ticks,       \* number of times the ping thread's time.sleep has returned
    pingPayload, \* ping_payload built at line 72
    mainPc,      \* position of the main thread
    closeCalled, \* ws_app.close() was called by the main thread
    now,         \* time.time(), in seconds since the start of the process
    sent,        \* frames written to the handle, in order
    log,         \* lines printed by the callbacks (transport thread), in order
    pingLog,     \* lines printed by send_pings (ping thread), in order
    mainLog      \* lines printed by the main thread, in order

handleVars == <<sock, closeInfo>>
wsVars     == <<wsPc, inCount, log>>
pingVars   == <<pingPc, wake, ticks, pingPayload, pingLog>>
mainVars   == <<mainPc, closeCalled, mainLog>>

vars == <<handleVars, wsVars, pingVars, mainVars, now, sent>>

----------------------------------------------------------------------------
(* Configuration, lines 8-11 *)
AUTH_PASSWORD == "websocket-password"
CHANNEL_TO_JOIN == "EKAB"
PING_INTERVAL_SECONDS == 20

(* Bounds of the model *)
MaxMsgs == 2        \* inbound frames delivered in one run
MaxTime == 40       \* the clock stops advancing here

(* Granularity of the clock: half a ping interval *)
TickSeconds == PING_INTERVAL_SECONDS \div 2

None == "None"

----------------------------------------------------------------------------
(* Inbound frames.  A frame is text that is either not JSON, JSON that is  *)
(* not an object, or a JSON object with some fields.                       *)
NotJson      == [valid |-> FALSE, object |-> FALSE, fields |-> [raw |-> "garbage"]]
JsonArray    == [valid |-> TRUE,  object |-> FALSE, fields |-> [raw |-> "[1]"]]
NoTypeObject == [valid |-> TRUE,  object |-> TRUE,  fields |-> [channel |-> "EKAB"]]
AuthRequired == [valid |-> TRUE,  object |-> TRUE,  fields |-> [type |-> "auth_required"]]
AuthRequiredX == [valid |-> TRUE, object |-> TRUE,
                  fields |-> [type |-> "auth_required", channel |-> "XXXX", password |-> "other"]]
AuthSuccess  == [valid |-> TRUE,  object |-> TRUE,
                 fields |-> [type |-> "auth_success", channel |-> "EKAB", clientId |-> "c1"]]
Pong         == [valid |-> TRUE,  object |-> TRUE,
                 fields |-> [type |-> "pong", timestamp |-> 17]]
OtherType    == [valid |-> TRUE,  object |-> TRUE,
                 fields |-> [type |-> "aircraft_data"]]

Msgs == {NotJson, JsonArray, NoTypeObject, AuthRequired, AuthRequiredX,
         AuthSuccess, Pong, OtherType}

(* json.loads(message_str), line 17: raises JSONDecodeError on text that   *)
(* is not JSON, returns the decoded value otherwise.                       *)
json_loads(m) ==
    IF m.valid THEN [ok |-> TRUE, isDict |-> m.object, fields |-> m.fields]
    ELSE [ok |-> FALSE, isDict |-> FALSE, fields |-> m.fields]

(* data.get(key): the field, or None when the object has no such key *)
get(data, key) ==
    IF key \in DOMAIN data.fields THEN data.fields[key] ELSE None

(* auth_payload with the two configured values swapped *)
auth_payload_Swapped ==
    [type |-> "auth", password |-> CHANNEL_TO_JOIN, channel |-> AUTH_PASSWORD]

(* json.dumps(auth_payload), lines 21-26 *)
auth_payload ==
    [type |-> "auth", password |-> AUTH_PASSWORD, channel |-> CHANNEL_TO_JOIN]

(* int(time.time() * 1000), line 72 *)
Timestamp(t) == t * 1000

ping_payload(t) == [type |-> "ping", timestamp |-> Timestamp(t)]

----------------------------------------------------------------------------
(* on_message without the except Exception clause of lines 49-50 *)
on_message_NoCatch(m) ==
    LET received == [ev |-> "received", msg |-> m]
        data == json_loads(m)
    IN  IF ~data.ok
        THEN [events |-> <<received, [ev |-> "non_json"]>>, next |-> "idle"]
        ELSE IF ~data.isDict
        THEN [events |-> <<received>>, next |-> "raised"]
        ELSE IF get(data, "type") = "auth_required"
        THEN [events |-> <<received, [ev |-> "auth_requested"]>>,
              next |-> "send_auth"]
        ELSE IF get(data, "type") = "auth_success"
        THEN [events |-> <<received,
                           [ev |-> "auth_success",
                            channel |-> "{data.get('channel')}",
                            clientId |-> "{data.get('clientId')}"]>>,
              next |-> "idle"]
        ELSE IF get(data, "type") = "pong"
        THEN [events |-> <<received,
                           [ev |-> "pong", timestamp |-> get(data, "timestamp")]>>,
              next |-> "idle"]
        ELSE [events |-> <<received>>, next |-> "idle"]

(* on_message that prints the pong timestamp in seconds *)
on_message_PongSeconds(m) ==
    LET received == [ev |-> "received", msg |-> m]
        data == json_loads(m)
    IN  IF ~data.ok
        THEN [events |-> <<received, [ev |-> "non_json"]>>, next |-> "idle"]
        ELSE IF ~data.isDict
        THEN [events |-> <<received, [ev |-> "msg_error", error |-> "AttributeError"]>>,
              next |-> "idle"]
        ELSE IF get(data, "type") = "auth_required"
        THEN [events |-> <<received, [ev |-> "auth_requested"]>>,
              next |-> "send_auth"]
        ELSE IF get(data, "type") = "auth_success"
        THEN [events |-> <<received,
                           [ev |-> "auth_success",
                            channel |-> "{data.get('channel')}",
                            clientId |-> "{data.get('clientId')}"]>>,
              next |-> "idle"]
        ELSE IF get(data, "type") = "pong"
        THEN [events |-> <<received,
                           [ev |-> "pong",
                            timestamp |-> get(data, "timestamp") \div 1000]>>,
              next |-> "idle"]
        ELSE [events |-> <<received>>, next |-> "idle"]

(* on_message whose last branch reports a frame of unknown type as an error *)
on_message_ElseError(m) ==
    LET received == [ev |-> "received", msg |-> m]
        data == json_loads(m)
    IN  IF ~data.ok
        THEN [events |-> <<received, [ev |-> "non_json"]>>, next |-> "idle"]
        ELSE IF ~data.isDict
        THEN [events |-> <<received, [ev |-> "msg_error", error |-> "AttributeError"]>>,
              next |-> "idle"]
        ELSE IF get(data, "type") = "auth_required"
        THEN [events |-> <<received, [ev |-> "auth_requested"]>>,
              next |-> "send_auth"]
        ELSE IF get(data, "type") = "auth_success"
        THEN [events |-> <<received,
                           [ev |-> "auth_success",
                            channel |-> "{data.get('channel')}",
                            clientId |-> "{data.get('clientId')}"]>>,
              next |-> "idle"]
        ELSE IF get(data, "type") = "pong"
        THEN [events |-> <<received,
                           [ev |-> "pong", timestamp |-> get(data, "timestamp")]>>,
              next |-> "idle"]
        ELSE [events |-> <<received, [ev |-> "msg_error", error |-> "UnknownType"]>>,
              next |-> "idle"]

(* on_message without the auth_success branch of lines 29-30 *)
on_message_NoSuccess(m) ==
    LET received == [ev |-> "received", msg |-> m]
        data == json_loads(m)
    IN  IF ~data.ok
        THEN [events |-> <<received, [ev |-> "non_json"]>>, next |-> "idle"]
        ELSE IF ~data.isDict
        THEN [events |-> <<received, [ev |-> "msg_error", error |-> "AttributeError"]>>,
              next |-> "idle"]
        ELSE IF get(data, "type") = "auth_required"
        THEN [events |-> <<received, [ev |-> "auth_requested"]>>,
              next |-> "send_auth"]
        ELSE IF get(data, "type") = "pong"
        THEN [events |-> <<received,
                           [ev |-> "pong", timestamp |-> get(data, "timestamp")]>>,
              next |-> "idle"]
        ELSE [events |-> <<received>>, next |-> "idle"]

(* on_message up to its call of ws.send: the lines it prints and where the *)
(* transport thread is afterwards ("send_auth": inside ws.send at line 26, *)
(* "idle": the callback returned, "raised": an exception left the          *)
(* callback).                                                              *)
on_message(m) ==
    LET received == [ev |-> "received", msg |-> m]
        data == json_loads(m)
    IN  IF ~data.ok
        THEN \* except json.JSONDecodeError, lines 47-48
             [events |-> <<received, [ev |-> "non_json"]>>, next |-> "idle"]
        ELSE IF ~data.isDict
        THEN \* data.get raises AttributeError; except Exception, lines 49-50
             [events |-> <<received, [ev |-> "msg_error", error |-> "AttributeError"]>>,
              next |-> "idle"]
        ELSE IF get(data, "type") = "auth_required"
        THEN [events |-> <<received, [ev |-> "auth_requested"]>>,
              next |-> "send_auth"]
        ELSE IF get(data, "type") = "auth_success"
        THEN \* line 30 is a plain string, not an f-string: the braces are
             \* printed literally
             [events |-> <<received,
                           [ev |-> "auth_success",
                            channel |-> "{data.get('channel')}",
                            clientId |-> "{data.get('clientId')}"]>>,
              next |-> "idle"]
        ELSE IF get(data, "type") = "pong"
        THEN [events |-> <<received,
                           [ev |-> "pong", timestamp |-> get(data, "timestamp")]>>,
              next |-> "idle"]
        ELSE [events |-> <<received>>, next |-> "idle"]

----------------------------------------------------------------------------
Init ==
    /\ sock = "none"
    /\ closeInfo = [error |-> FALSE, detail |-> None, code |-> None, reason |-> None]
    /\ wsPc = "connecting"
    /\ inCount = 0
    /\ pingPc = "sleep"
    /\ wake = PING_INTERVAL_SECONDS
    /\ ticks = 0
    /\ pingPayload = ping_payload(0)
    /\ mainPc = "loop"
    /\ closeCalled = FALSE
    /\ now = 0
    /\ sent = << >>
    /\ log = << >>
    /\ pingLog = << >>
    /\ mainLog = << >>

(* Projections of the output *)
Auths == SelectSeq(sent, LAMBDA f : f.type = "auth")
Pings == SelectSeq(sent, LAMBDA f : f.type = "ping")
Received == SelectSeq(log, LAMBDA e : e.ev = "received")
Events(l, name) == SelectSeq(l, LAMBDA e : e.ev = name)

(* The process is alive until the main thread ends; both other threads    *)
(* are daemon threads (lines 98, 103).                                     *)
Alive == mainPc # "done"

(* Time passes.  Only the ping thread reads the clock (lines 69, 72), so  *)
(* the clock is followed while that thread runs.                          *)
Tick ==
    /\ Alive
    /\ pingPc # "done"
    /\ now + TickSeconds <= MaxTime
    /\ now' = now + TickSeconds
    /\ UNCHANGED <<handleVars, wsVars, pingVars, mainVars, sent>>

----------------------------------------------------------------------------
(* Transport thread *)

(* on_open that starts the authentication itself *)
on_open_SendsAuth ==
    /\ Alive
    /\ wsPc = "connecting"
    /\ sock = "none"
    /\ sock' = "connected"
    /\ wsPc' = "idle"
    /\ log' = Append(log, [ev |-> "opened"])
    /\ sent' = Append(sent, auth_payload)
    /\ UNCHANGED <<closeInfo, inCount, pingVars, mainVars, now>>

(* run_forever connects and calls on_open, lines 61-62 *)
on_open ==
    /\ Alive
    /\ wsPc = "connecting"
    /\ sock = "none"
    /\ sock' = "connected"
    /\ wsPc' = "idle"
    /\ log' = Append(log, [ev |-> "opened"])
    /\ UNCHANGED <<closeInfo, inCount, pingVars, mainVars, now, sent>>

(* The connection attempt fails: the handle never opens *)
ConnectFail ==
    /\ Alive
    /\ wsPc = "connecting"
    /\ sock = "none"
    /\ sock' = "closed"
    /\ closeInfo' = [error |-> TRUE, detail |-> "connection refused",
                     code |-> None, reason |-> None]
    /\ wsPc' = "idle"
    /\ UNCHANGED <<inCount, log, pingVars, mainVars, now, sent>>

(* The peer closes the connection (with or without code and reason) or    *)
(* the connection breaks.                                                  *)
TransportClose ==
    /\ Alive
    /\ sock = "connected"
    /\ sock' = "closed"
    /\ \E info \in {[error |-> FALSE, detail |-> None,
                     code |-> "1000", reason |-> "bye"],
                    [error |-> TRUE, detail |-> "connection reset",
                     code |-> None, reason |-> None]} :
           closeInfo' = info
    /\ UNCHANGED <<wsVars, pingVars, mainVars, now, sent>>

(* A frame arrives and run_forever calls on_message, lines 14-50 *)
OnMessage ==
    /\ Alive
    /\ wsPc = "idle"
    /\ sock = "connected"
    /\ inCount < MaxMsgs
    /\ \E m \in Msgs :
          /\ log' = log \o on_message(m).events
          /\ wsPc' = on_message(m).next
    /\ inCount' = inCount + 1
    /\ UNCHANGED <<handleVars, pingVars, mainVars, now, sent>>

(* AuthSend that writes nothing once an auth frame has been written *)
AuthSendOnce ==
    /\ Alive
    /\ wsPc = "send_auth"
    /\ IF sock = "connected" /\ Auths = << >>
       THEN /\ sent' = Append(sent, auth_payload)
            /\ log' = Append(log, [ev |-> "auth_sent", payload |-> auth_payload])
       ELSE /\ sent' = sent
            /\ log' = Append(log, [ev |-> "msg_error", error |-> "ConnectionClosed"])
    /\ wsPc' = "idle"
    /\ UNCHANGED <<handleVars, inCount, pingVars, mainVars, now>>

(* AuthSend whose exception is not caught by lines 49-50 *)
AuthSendNoCatch ==
    /\ Alive
    /\ wsPc = "send_auth"
    /\ IF sock = "connected"
       THEN /\ sent' = Append(sent, auth_payload)
            /\ log' = Append(log, [ev |-> "auth_sent", payload |-> auth_payload])
            /\ wsPc' = "idle"
       ELSE /\ sent' = sent
            /\ log' = log
            /\ wsPc' = "raised"
    /\ UNCHANGED <<handleVars, inCount, pingVars, mainVars, now>>

(* ws.send(json.dumps(auth_payload)) returns or raises, lines 26-27, 49-50 *)
AuthSend ==
    /\ Alive
    /\ wsPc = "send_auth"
    /\ IF sock = "connected"
       THEN /\ sent' = Append(sent, auth_payload)
            /\ log' = Append(log, [ev |-> "auth_sent", payload |-> auth_payload])
       ELSE /\ sent' = sent
            /\ log' = Append(log, [ev |-> "msg_error", error |-> "ConnectionClosed"])
    /\ wsPc' = "idle"
    /\ UNCHANGED <<handleVars, inCount, pingVars, mainVars, now>>

(* on_error, lines 52-53 *)
on_error ==
    /\ Alive
    /\ wsPc = "idle"
    /\ sock = "closed"
    /\ closeInfo.error
    /\ log' = Append(log, [ev |-> "ws_error", error |-> closeInfo.detail])
    /\ closeInfo' = [closeInfo EXCEPT !.error = FALSE]
    /\ UNCHANGED <<sock, wsPc, inCount, pingVars, mainVars, now, sent>>

(* on_close that never appends the code and the reason *)
on_close_NoDetail ==
    /\ Alive
    /\ wsPc = "idle"
    /\ sock = "closed"
    /\ ~closeInfo.error
    /\ log' = Append(log, [ev |-> "closed", detail |-> FALSE,
                           code |-> None, reason |-> None])
    /\ wsPc' = "stopped"
    /\ UNCHANGED <<handleVars, inCount, pingVars, mainVars, now, sent>>

(* on_close, lines 55-59; run_forever returns afterwards *)
on_close ==
    /\ Alive
    /\ wsPc = "idle"
    /\ sock = "closed"
    /\ ~closeInfo.error
    /\ log' = Append(log,
                 IF closeInfo.code # None \/ closeInfo.reason # None
                 THEN [ev |-> "closed", detail |-> TRUE,
                       code |-> closeInfo.code, reason |-> closeInfo.reason]
                 ELSE [ev |-> "closed", detail |-> FALSE,
                       code |-> None, reason |-> None])
    /\ wsPc' = "stopped"
    /\ UNCHANGED <<handleVars, inCount, pingVars, mainVars, now, sent>>

----------------------------------------------------------------------------
(* Ping thread, send_pings, lines 66-83 *)

(* PingWake without the check of line 70 *)
PingWakeNoCheck ==
    /\ Alive
    /\ pingPc = "sleep"
    /\ now >= wake
    /\ ticks' = ticks + 1
    /\ pingPayload' = ping_payload(now)
    /\ pingLog' = Append(pingLog, [ev |-> "ping_sending",
                                   payload |-> ping_payload(now)])
    /\ pingPc' = "send"
    /\ UNCHANGED <<handleVars, wsVars, wake, mainVars, now, sent>>

(* PingWake that keeps looping when the handle is not connected *)
PingWakeContinue ==
    /\ Alive
    /\ pingPc = "sleep"
    /\ now >= wake
    /\ ticks' = ticks + 1
    /\ IF sock = "connected"
       THEN /\ pingPayload' = ping_payload(now)
            /\ pingLog' = Append(pingLog, [ev |-> "ping_sending",
                                           payload |-> ping_payload(now)])
            /\ pingPc' = "send"
       ELSE /\ pingLog' = Append(pingLog, [ev |-> "ping_not_connected"])
            /\ pingPc' = "sleep"
            /\ UNCHANGED pingPayload
    /\ UNCHANGED <<handleVars, wsVars, wake, mainVars, now, sent>>

(* time.sleep returns; the isOpen check and lines 72-73, or lines 81-83 *)
PingWake ==
    /\ Alive
    /\ pingPc = "sleep"
    /\ now >= wake
    /\ ticks' = ticks + 1
    /\ IF sock = "connected"
       THEN /\ pingPayload' = ping_payload(now)
            /\ pingLog' = Append(pingLog, [ev |-> "ping_sending",
                                           payload |-> ping_payload(now)])
            /\ pingPc' = "send"
       ELSE /\ pingLog' = Append(pingLog, [ev |-> "ping_not_connected"])
            /\ pingPc' = "done"
            /\ UNCHANGED pingPayload
    /\ UNCHANGED <<handleVars, wsVars, wake, mainVars, now, sent>>

(* PingSend whose write goes through whatever the state of the handle *)
PingSendUnchecked ==
    /\ Alive
    /\ pingPc = "send"
    /\ sent' = Append(sent, pingPayload)
    /\ pingPc' = "sleep"
    /\ wake' = now + PING_INTERVAL_SECONDS
    /\ UNCHANGED <<handleVars, wsVars, ticks, pingPayload, pingLog, mainVars, now>>

(* PingSend followed by a loop that does not sleep again *)
PingSendNoSleep ==
    /\ Alive
    /\ pingPc = "send"
    /\ IF sock = "connected"
       THEN /\ sent' = Append(sent, pingPayload)
            /\ pingPc' = "sleep"
            /\ wake' = wake
            /\ pingLog' = pingLog
       ELSE /\ sent' = sent
            /\ pingPc' = "done"
            /\ wake' = wake
            /\ \E e \in {"ping_failed_closed", "ping_error"} :
                   pingLog' = Append(pingLog, [ev |-> e])
    /\ UNCHANGED <<handleVars, wsVars, ticks, pingPayload, mainVars, now>>

(* PingSend that goes back to sleep after a failed write and tries again *)
PingSendRetry ==
    /\ Alive
    /\ pingPc = "send"
    /\ IF sock = "connected"
       THEN /\ sent' = Append(sent, pingPayload)
            /\ pingLog' = pingLog
       ELSE /\ sent' = sent
            /\ \E e \in {"ping_failed_closed", "ping_error"} :
                   pingLog' = Append(pingLog, [ev |-> e])
    /\ pingPc' = "sleep"
    /\ wake' = now + PING_INTERVAL_SECONDS
    /\ UNCHANGED <<handleVars, wsVars, ticks, pingPayload, mainVars, now>>

(* PingSend that closes the handle itself when its write fails *)
PingSendCloses ==
    /\ Alive
    /\ pingPc = "send"
    /\ IF sock = "connected"
       THEN /\ sent' = Append(sent, pingPayload)
            /\ pingPc' = "sleep"
            /\ wake' = now + PING_INTERVAL_SECONDS
            /\ pingLog' = pingLog
            /\ UNCHANGED closeInfo
       ELSE /\ sent' = sent
            /\ pingPc' = "done"
            /\ wake' = wake
            /\ closeInfo' = [error |-> FALSE, detail |-> None,
                             code |-> None, reason |-> None]
            /\ \E e \in {"ping_failed_closed", "ping_error"} :
                   pingLog' = Append(pingLog, [ev |-> e])
    /\ UNCHANGED <<sock, wsVars, ticks, pingPayload, mainVars, now>>

(* ws.send(json.dumps(ping_payload)) returns or raises, lines 74-80 *)
PingSend ==
    /\ Alive
    /\ pingPc = "send"
    /\ IF sock = "connected"
       THEN /\ sent' = Append(sent, pingPayload)
            /\ pingPc' = "sleep"
            /\ wake' = now + PING_INTERVAL_SECONDS
            /\ pingLog' = pingLog
       ELSE /\ sent' = sent
            /\ pingPc' = "done"
            /\ wake' = wake
            /\ \E e \in {"ping_failed_closed", "ping_error"} :
                   pingLog' = Append(pingLog, [ev |-> e])
    /\ UNCHANGED <<handleVars, wsVars, ticks, pingPayload, mainVars, now>>

----------------------------------------------------------------------------
(* Main thread, lines 109-141 *)

(* The loop finds the transport thread dead, lines 125-127 *)
MainLoopExit ==
    /\ mainPc = "loop"
    /\ wsPc = "stopped"
    /\ mainPc' = "finally"
    /\ mainLog' = Append(mainLog, [ev |-> "ws_thread_stopped"])
    /\ UNCHANGED <<handleVars, wsVars, pingVars, closeCalled, now, sent>>

(* Ctrl+C, lines 130-131 *)
KeyboardInterrupt ==
    /\ mainPc = "loop"
    /\ mainPc' = "finally"
    /\ mainLog' = Append(mainLog, [ev |-> "interrupt"])
    /\ UNCHANGED <<handleVars, wsVars, pingVars, closeCalled, now, sent>>

(* finally: close the handle if it is connected, lines 133-135 *)
MainClose ==
    /\ mainPc = "finally"
    /\ IF sock = "connected"
       THEN /\ mainLog' = Append(mainLog, [ev |-> "closing"])
            /\ sock' = "closed"
            /\ closeCalled' = TRUE
            /\ closeInfo' = [error |-> FALSE, detail |-> None, code |-> None, reason |-> None]
       ELSE UNCHANGED <<mainLog, sock, closeCalled, closeInfo>>
    /\ mainPc' = "join_ws"
    /\ UNCHANGED <<wsVars, pingVars, now, sent>>

(* ws_thread.join(timeout=2): the thread ended or the timeout expired,    *)
(* lines 137-138                                                           *)
MainJoinWs ==
    /\ mainPc = "join_ws"
    /\ mainPc' = "join_ping"
    /\ UNCHANGED <<handleVars, wsVars, pingVars, closeCalled, mainLog, now, sent>>

(* MainJoinPing whose join has no timeout *)
MainJoinPingNoTimeout ==
    /\ mainPc = "join_ping"
    /\ pingPc = "done"
    /\ mainPc' = "done"
    /\ mainLog' = Append(mainLog, [ev |-> "shutdown_complete"])
    /\ UNCHANGED <<handleVars, wsVars, pingVars, closeCalled, now, sent>>

(* ping_thread.join(timeout=2) and the last print, lines 139-141 *)
MainJoinPing ==
    /\ mainPc = "join_ping"
    /\ mainPc' = "done"
    /\ mainLog' = Append(mainLog, [ev |-> "shutdown_complete"])
    /\ UNCHANGED <<handleVars, wsVars, pingVars, closeCalled, now, sent>>

----------------------------------------------------------------------------
Next ==
    \/ Tick
    \/ on_open
    \/ ConnectFail
    \/ TransportClose
    \/ OnMessage
    \/ AuthSend
    \/ on_error
    \/ on_close
    \/ PingWake
    \/ PingSend
    \/ MainLoopExit
    \/ KeyboardInterrupt
    \/ MainClose
    \/ MainJoinWs
    \/ MainJoinPing

Spec == Init /\ [][Next]_vars

(* The main thread is scheduled: its sleeps and joins are all bounded *)
FairSpec ==
    /\ Spec
    /\ WF_vars(MainLoopExit)
    /\ WF_vars(MainClose)
    /\ WF_vars(MainJoinWs)
    /\ WF_vars(MainJoinPing)

----------------------------------------------------------------------------
TypeOK ==
    /\ sock \in {"none", "connected", "closed"}
    /\ wsPc \in {"connecting", "idle", "send_auth", "stopped", "raised"}
    /\ pingPc \in {"sleep", "send", "done"}
    /\ mainPc \in {"loop", "finally", "join_ws", "join_ping", "done"}
    /\ inCount \in 0..MaxMsgs
    /\ now \in 0..MaxTime

----------------------------------------------------------------------------
(* Properties *)

TypeOf(m) ==
    IF json_loads(m).ok /\ json_loads(m).isDict
    THEN get(json_loads(m), "type") ELSE None

IsAuthRequired(m) == TypeOf(m) = "auth_required"

(* A frame that is not JSON, is not a JSON object, or has no type field *)
Malformed(m) == TypeOf(m) = None

AuthRequests == SelectSeq(Received, LAMBDA e : IsAuthRequired(e.msg))

Last(q) == q[Len(q)]

(* C1: once the callbacks have handled exactly [opened, message(auth_required)]
   on a connection that is still open, the callbacks have printed the request
   for authentication and exactly one auth frame has been written; it carries
   the configured password and channel, whatever fields the auth_required
   frame had. *)
C1_AuthOnFirstRequest ==
    ( /\ Len(log) >= 2
      /\ log[1].ev = "opened"
      /\ Len(Received) = 1
      /\ IsAuthRequired(log[2].msg)
      /\ wsPc = "idle"
      /\ sock = "connected" )
    => /\ Auths = << [type |-> "auth", password |-> "websocket-password",
                      channel |-> "EKAB"] >>
       /\ log[3].ev = "auth_requested"
       /\ log[4].ev = "auth_sent"

C1_Witness ==
    /\ Len(log) = 4
    /\ log[1].ev = "opened"
    /\ log[2] = [ev |-> "received", msg |-> AuthRequiredX]
    /\ wsPc = "idle"
    /\ sock = "connected"
    /\ Len(Auths) = 1

(* C2 as claimed: at most one auth frame is written on a connection. *)
C2_AtMostOneAuth == Len(Auths) <= 1

(* C2 amended: every auth_required handled produces at most one auth frame,
   and exactly one when the handle is still open at the write, whatever was
   received before it. *)
C2_OneAuthPerRequest ==
    /\ Len(Auths) <= Len(AuthRequests)
    /\ (sock = "connected" /\ wsPc = "idle") => Len(Auths) = Len(AuthRequests)

C2_Witness ==
    /\ Len(Auths) = 2
    /\ Len(AuthRequests) = 2
    /\ wsPc = "idle"

C4_WritesExclusive == ~(pingPc = "send" /\ wsPc = "send_auth")

(* C5: when the handle is closed while the ping thread sleeps, the tick that
   follows writes nothing, reports that the handle is not connected and ends
   the ping thread. *)
C5_ClosedWhileSleeping ==
    [][(pingPc = "sleep" /\ sock = "closed" /\ ticks' # ticks)
         => /\ pingPc' = "done"
            /\ ticks' = ticks + 1
            /\ sent' = sent
            /\ pingLog' = Append(pingLog, [ev |-> "ping_not_connected"])]_vars

C5_Witness ==
    /\ pingPc = "done"
    /\ ticks = 2
    /\ Len(Pings) = 1
    /\ Last(pingLog).ev = "ping_not_connected"
    /\ sock = "closed"

(* C6: handling a frame that is not JSON, not a JSON object, or has no type
   field ends inside the callback (nothing is raised to run_forever), writes
   nothing, prints no authentication line and leaves the transport thread
   ready for the next frame. *)
C6_MalformedIgnored ==
    [][(inCount' = inCount + 1 /\ Malformed(log'[Len(log) + 1].msg))
         => /\ wsPc' = "idle"
            /\ sent' = sent
            /\ sock' = sock
            /\ \A i \in (Len(log) + 2)..Len(log') :
                   log'[i].ev \in {"non_json", "msg_error"}]_vars

(* a JSON array was handled, and the auth_required after it was answered *)
C6_Witness ==
    /\ Len(Received) = 2
    /\ Received[1].msg = JsonArray
    /\ IsAuthRequired(Received[2].msg)
    /\ Len(Auths) = 1

(* C7: the line printed for an auth_success that follows an auth write
   carries the channel and the clientId of the frame. *)
C7_AuthSuccessCarriesValues ==
    \A i \in 2..Len(log) :
        ( /\ log[i].ev = "auth_success"
          /\ \E j \in 1..(i - 1) : log[j].ev = "auth_sent" )
        => /\ log[i].channel = get(json_loads(log[i - 1].msg), "channel")
           /\ log[i].clientId = get(json_loads(log[i - 1].msg), "clientId")

(* C8 as claimed: when the main thread has printed its last line, the ping
   thread has ended. *)
C8_NoPingerLeft == mainPc = "done" => pingPc = "done"

(* C8 amended: once the handle is closed nothing more is written, no further
   frame is handled, the next step of the ping thread ends it, and the
   transport thread only finishes its callback and stops. *)
C8_CloseCancels ==
    [][sock = "closed"
         => /\ sent' = sent
            /\ inCount' = inCount
            /\ (pingPc' # pingPc \/ ticks' # ticks) => pingPc' = "done"
            /\ wsPc' # wsPc => wsPc' \in {"idle", "stopped"}]_vars

(* the main thread closed the handle and ended while the ping thread sleeps *)
C8_Witness ==
    /\ mainPc = "done"
    /\ closeCalled
    /\ sock = "closed"
    /\ pingPc = "sleep"
    /\ Len(Pings) >= 1

(* C9: once Ctrl+C was pressed or the transport thread has stopped, the main
   thread reaches its last line; it calls close exactly when it finds the
   handle connected. *)
C9_MainTerminates ==
    /\ (mainPc = "finally" \/ wsPc = "stopped") ~> (mainPc = "done")
    /\ [][(mainPc = "finally" /\ mainPc' # "finally")
            => /\ closeCalled' <=> sock = "connected"
               /\ closeCalled' => sock' = "closed"]_vars

(* the main thread ended without closing, the ping thread still sleeps *)
C9_Witness ==
    /\ mainPc = "done"
    /\ ~closeCalled
    /\ wsPc = "stopped"
    /\ pingPc = "sleep"

(* C10: while the ping thread runs, every tick has written one ping frame,
   and each ping frame has a timestamp greater than the one before it. *)
C10_OnePingPerTick ==
    /\ pingPc = "sleep" => Len(Pings) = ticks
    /\ pingPc = "send" => Len(Pings) = ticks - 1
    /\ \A i \in 1..(Len(Pings) - 1) :
           Pings[i + 1].timestamp > Pings[i].timestamp

C10_Witness ==
    /\ sock = "connected"
    /\ pingPc = "sleep"
    /\ ticks = 2
    /\ Len(Pings) = 2

(* The types on_message has a branch for, lines 19, 29, 40 *)
KnownTypes == {"auth_required", "auth_success", "pong"}

(* C11: handling a pong frame, whatever was received before it, writes
   nothing, ends the callback, and prints one heartbeat line whose timestamp
   is the timestamp of the frame. *)
C11_PongEchoed ==
    [][(inCount' = inCount + 1 /\ TypeOf(log'[Len(log) + 1].msg) = "pong")
         => /\ wsPc' = "idle"
            /\ sent' = sent
            /\ sock' = sock
            /\ Len(log') = Len(log) + 2
            /\ log'[Len(log) + 2].ev = "pong"
            /\ log'[Len(log) + 2].timestamp
                   = log'[Len(log) + 1].msg.fields.timestamp]_vars

(* a pong was handled after an auth write *)
C11_Witness ==
    /\ Len(Auths) = 1
    /\ Len(Received) = 2
    /\ Last(log) = [ev |-> "pong", timestamp |-> 17]

(* C12 as claimed: a frame of unknown type is followed by an error line. *)
C12_UnknownTypeLogged ==
    \A i \in 1..Len(log) :
        ( /\ log[i].ev = "received"
          /\ ~Malformed(log[i].msg)
          /\ TypeOf(log[i].msg) \notin KnownTypes )
        => /\ i < Len(log)
           /\ log[i + 1].ev \in {"non_json", "msg_error"}

(* C12 amended: handling a frame of unknown type prints the received line
   only, writes nothing and ends the callback. *)
C12_UnknownTypeIgnored ==
    [][( /\ inCount' = inCount + 1
         /\ ~Malformed(log'[Len(log) + 1].msg)
         /\ TypeOf(log'[Len(log) + 1].msg) \notin KnownTypes )
         => /\ wsPc' = "idle"
            /\ sent' = sent
            /\ sock' = sock
            /\ Len(log') = Len(log) + 1]_vars

(* a frame of unknown type was handled, and the auth_required after it too *)
C12_Witness ==
    /\ Len(Received) = 2
    /\ Received[1].msg = OtherType
    /\ IsAuthRequired(Received[2].msg)
    /\ Len(Auths) = 1

(* The callbacks have printed an error line or a closed line *)
SessionEnded == \E i \in 1..Len(log) : log[i].ev \in {"ws_error", "closed"}

(* C13: the error line carries the error reported by the transport, the
   closed line carries the code and the reason when the transport reports
   any, and once either line is printed no frame is written any more. *)
C13_EndedSessionStaysSilent ==
    [][/\ (Len(log') = Len(log) + 1 /\ Last(log').ev = "ws_error")
            => Last(log').error = closeInfo.detail
       /\ (Len(log') = Len(log) + 1 /\ Last(log').ev = "closed")
            => /\ Last(log').code = closeInfo.code
               /\ Last(log').reason = closeInfo.reason
               /\ sock = "closed"
       /\ SessionEnded => (sent' = sent /\ inCount' = inCount)]_vars

(* the peer closed with a code after an auth_required was answered *)
C13_Witness ==
    /\ Len(Auths) = 1
    /\ Last(log) = [ev |-> "closed", detail |-> TRUE,
                    code |-> "1000", reason |-> "bye"]
    /\ wsPc = "stopped"

PingFailures == {"ping_failed_closed", "ping_error"}

(* C14: a ping write that fails ends the ping thread with one line saying
   so; nothing is written, the other two threads are where they were, and
   the ping thread, once ended, never runs or writes again. *)
C14_FailedPingEndsPinger ==
    [][/\ (pingPc = "send" /\ sock # "connected" /\ pingPc' # pingPc)
            => /\ pingPc' = "done"
               /\ sent' = sent
               /\ Len(pingLog') = Len(pingLog) + 1
               /\ Last(pingLog').ev \in PingFailures
               /\ wsPc' = wsPc
               /\ mainPc' = mainPc
       /\ pingPc = "done"
            => /\ pingPc' = "done"
               /\ Pings' = Pings
               /\ pingLog' = pingLog
               /\ ticks' = ticks]_vars

(* the ping write failed; the callbacks and the main loop still run *)
C14_Witness ==
    /\ pingPc = "done"
    /\ pingLog # << >>
    /\ Last(pingLog).ev = "ping_error"
    /\ Len(Events(pingLog, "ping_error")) = 1
    /\ wsPc = "idle"
    /\ mainPc = "loop"

(* C15: an auth write that fails is caught inside on_message: the callback
   prints an error line and returns, nothing is written, and the other two
   threads are where they were. *)
C15_FailedAuthIsCaught ==
    [][(wsPc = "send_auth" /\ sock # "connected" /\ wsPc' # wsPc)
         => /\ wsPc' = "idle"
            /\ log' = Append(log, [ev |-> "msg_error",
                                   error |-> "ConnectionClosed"])
            /\ sent' = sent
            /\ pingPc' = pingPc
            /\ mainPc' = mainPc]_vars

(* the auth write failed, and the close callback was dispatched after it *)
C15_Witness ==
    /\ \E i \in 1..Len(log) : \E j \in (i + 1)..Len(log) :
           /\ log[i] = [ev |-> "msg_error", error |-> "ConnectionClosed"]
           /\ log[j].ev = "closed"
    /\ Auths = << >>
    /\ mainPc = "loop"

(* C16: an auth frame is written only by the callback that is handling an
   auth_required frame, one frame at a time. *)
C16_AuthOnlyOnRequest ==
    [][Auths' # Auths
         => /\ wsPc = "send_auth"
            /\ Received # << >>
            /\ IsAuthRequired(Last(Received).msg)
            /\ Last(log).ev = "auth_requested"
            /\ Auths' = Append(Auths, auth_payload)]_vars

(* opened, auth_success, pong, error and closed were handled: no auth frame *)
C16_Witness ==
    /\ Len(log) >= 7
    /\ log[1].ev = "opened"
    /\ Received = << [ev |-> "received", msg |-> AuthSuccess],
                     [ev |-> "received", msg |-> Pong] >>
    /\ log[Len(log) - 1].ev = "ws_error"
    /\ Last(log).ev = "closed"
    /\ Auths = << >>

(* C17: a step of the ping thread leaves the handle's connection state and
   everything the callbacks keep and print as it was. *)
C17_PingerLeavesSessionAlone ==
    [][(pingPc' # pingPc \/ ticks' # ticks \/ wake' # wake \/ pingLog' # pingLog)
         => UNCHANGED <<sock, closeInfo, wsPc, inCount, log>>]_vars

(* the ping thread slept, checked, wrote and stopped beside a session *)
C17_Witness ==
    /\ pingPc = "done"
    /\ ticks = 2
    /\ Len(Pings) = 1
    /\ Len(Auths) = 1
    /\ \E i \in 1..Len(log) : log[i].ev = "auth_success"

(* C18 as claimed: the authentication-successful line is printed only after
   an auth frame was written. *)
C18_SuccessOnlyAfterAuth ==
    \A i \in 1..Len(log) :
        log[i].ev = "auth_success"
        => \E j \in 1..(i - 1) : log[j].ev = "auth_sent"

(* C18 amended: handling an auth_success frame prints the
   authentication-successful line whatever was received or written before,
   and writes nothing. *)
C18_SuccessAlwaysPrinted ==
    [][(inCount' = inCount + 1
          /\ TypeOf(log'[Len(log) + 1].msg) = "auth_success")
         => /\ Len(log') = Len(log) + 2
            /\ Last(log').ev = "auth_success"
            /\ wsPc' = "idle"
            /\ sent' = sent]_vars

(* auth_success was the first frame after the open *)
C18_Witness ==
    /\ Len(log) = 3
    /\ log[1].ev = "opened"
    /\ log[2] = [ev |-> "received", msg |-> AuthSuccess]
    /\ log[3].ev = "auth_success"
    /\ sent = << >>

(* C19: when the first tick of the ping thread finds the handle not
   connected, the ping thread has ended after that one tick and no ping
   frame is ever written. *)
C19_EarlyExitIsFinal ==
    (pingLog # << >> /\ pingLog[1].ev = "ping_not_connected")
    => /\ pingPc = "done"
       /\ ticks = 1
       /\ Pings = << >>

(* the handle opened after the ping thread had given up, and frames came in *)
C19_Witness ==
    /\ pingLog = << [ev |-> "ping_not_connected"] >>
    /\ sock = "connected"
    /\ Len(log) >= 2
    /\ log[1].ev = "opened"
    /\ Len(Auths) = 1
    /\ Pings = << >>

====
